---- MODULE Spec2Model ----
(***************************************************************************)
(* A model of teleping.py: the TelePing client (configuration validation,  *)
(* message sanitisation, the rate limiter and send_message) and the        *)
(* module-level accessor get_teleping.                                     *)
(*                                                                         *)
(* Text is kept run-length encoded: a string is a sequence of runs         *)
(* <<c, n>>, n >= 1 copies of the character class c.  This keeps the       *)
(* program's own length constants (4000, 3997) while the state stays       *)
(* small.  Character classes: "a" any non-whitespace character, SP any     *)
(* whitespace other than CR and LF, CR "\r", LF "\n", DOT ".".             *)
(***************************************************************************)
EXTENDS Integers, Sequences, FiniteSets, TLC

VARIABLES
    san_text,           \* argument of the _sanitize_message call under test
    san_out,            \* its return value
    san_done,           \* whether the call has returned
    teleping_instance,  \* the module global _teleping_instance
    client,             \* what the last TelePing() / get_teleping() call returned
    ctor_call,          \* which of the two that call was, "" before the first
    ctor_error,         \* the ValueError that call raised, "" when it returned
    ctor_failed,        \* whether any construction has raised so far
    clock,              \* time.time(), in ticks
    pc,                 \* per thread: where its send_message call stands
    call,               \* per thread: the locals of its current (or last) call
    outcome,            \* per thread: what requests.post did in that call
    result,             \* per thread: what that call returned
    stamps,             \* the writes of last_request_time, in order
    dispatches,         \* the HTTP POSTs issued, in order
    ncalls              \* send_message calls made so far

sanVars == <<san_text, san_out, san_done>>
cfgVars == <<teleping_instance, client, ctor_call, ctor_error, ctor_failed>>
cfgRest == <<client, ctor_call, ctor_error, ctor_failed>>
sendVars == <<clock, pc, call, outcome, result, stamps, dispatches, ncalls>>
vars == <<san_text, san_out, san_done,
          teleping_instance, client, ctor_call, ctor_error, ctor_failed,
          clock, pc, call, outcome, result, stamps, dispatches, ncalls>>

----------------------------------------------------------------------------
(* Bounds of the model                                                     *)

MaxRuns == 3            \* runs in a text given to _sanitize_message
MaxTokenLen == 3        \* characters in a TELEGRAM_BOT_TOKEN value
MaxTime == 6            \* the clock stops at this tick
MaxCalls == 2           \* send_message calls in one behaviour
TicksPerSecond == 2     \* resolution of the clock

----------------------------------------------------------------------------
(* Strings                                                                 *)

CR == "CR"
LF == "LF"
SP == "SP"
DOT == "."
Whitespace == {SP, CR, LF}

\* len(s)
RECURSIVE StrLen(_)
StrLen(s) ==
    IF s = <<>> THEN 0 ELSE s[1][2] + StrLen(Tail(s))

\* s[:n]
RECURSIVE Prefix(_, _)
Prefix(s, n) ==
    IF n <= 0 \/ s = <<>> THEN <<>>
    ELSE IF s[1][2] <= n THEN <<s[1]>> \o Prefix(Tail(s), n - s[1][2])
    ELSE << <<s[1][1], n>> >>

\* s[-n:], n >= 1
RECURSIVE Suffix(_, _)
Suffix(s, n) ==
    IF n <= 0 \/ s = <<>> THEN <<>>
    ELSE LET l == s[Len(s)]
             front == SubSeq(s, 1, Len(s) - 1)
         IN IF l[2] <= n THEN Suffix(front, n - l[2]) \o <<l>>
            ELSE << <<l[1], n>> >>

\* s.replace('\r\n', '\n'): the last "\r" of a run that a "\n" follows goes
RECURSIVE ReplaceCRLF(_)
ReplaceCRLF(s) ==
    IF s = <<>> THEN <<>>
    ELSE IF s[1][1] = CR /\ Len(s) > 1 /\ s[2][1] = LF
         THEN (IF s[1][2] > 1 THEN << <<CR, s[1][2] - 1>> >> ELSE <<>>)
              \o ReplaceCRLF(Tail(s))
         ELSE <<s[1]>> \o ReplaceCRLF(Tail(s))

\* s.replace('\r', '\n')
ReplaceCR(s) ==
    [i \in 1..Len(s) |-> IF s[i][1] = CR THEN <<LF, s[i][2]>> ELSE s[i]]

RECURSIVE LStrip(_)
LStrip(s) ==
    IF s # <<>> /\ s[1][1] \in Whitespace THEN LStrip(Tail(s)) ELSE s

RECURSIVE RStrip(_)
RStrip(s) ==
    IF s # <<>> /\ s[Len(s)][1] \in Whitespace
    THEN RStrip(SubSeq(s, 1, Len(s) - 1)) ELSE s

\* s.strip()
Strip(s) == RStrip(LStrip(s))

\* s.endswith(t), t a single run
EndsWith(s, t) ==
    LET tail == Suffix(s, t[2])
    IN /\ StrLen(tail) = t[2]
       /\ \A i \in 1..Len(tail) : tail[i][1] = t[1]

\* '\r\n' in s
HasCRLF(s) ==
    \E i \in 1..(Len(s) - 1) : s[i][1] = CR /\ s[i + 1][1] = LF

----------------------------------------------------------------------------
(* Python values passed as the text argument.  chars is str(value).        *)

PyStr(s) == [type |-> "str", chars |-> s, truthy |-> s # <<>>]
PyNone == [type |-> "NoneType", chars |-> << <<"a", 4>> >>, truthy |-> FALSE]
PyZero == [type |-> "int", chars |-> << <<"a", 1>> >>, truthy |-> FALSE]
PyInt == [type |-> "int", chars |-> << <<"a", 3>> >>, truthy |-> TRUE]

----------------------------------------------------------------------------
(* TelePing._sanitize_message                                              *)

MaxMessageLen == 4000
TruncateAt == 3997
Ellipsis == <<DOT, 3>>

Truncate_OffByOne(s) ==
    IF StrLen(s) > MaxMessageLen
    THEN Prefix(s, TruncateAt + 1) \o <<Ellipsis>>
    ELSE s

\* if len(text) > 4000: text = text[:3997] + "..."
Truncate(s) ==
    IF StrLen(s) > MaxMessageLen
    THEN Prefix(s, TruncateAt) \o <<Ellipsis>>
    ELSE s

sanitize_message(text) ==
    Strip(ReplaceCR(ReplaceCRLF(Truncate(text.chars))))

----------------------------------------------------------------------------
(* TelePing.send_message: values                                           *)

Threads == {1, 2}

\* A JSON value is kept as a tag: "absent" (no such key), "true", "false",
\* "1" (a truthy value that is not true), or a string.
Truthy(v) == v \in {"true", "1"}

\* The body of a response: not JSON at all (response.json() raises exc), a JSON
\* value that is not an object, or an object with its ok, description and
\* result members.
NoBody ==
    [json |-> "none", exc |-> "", ok |-> "absent", description |-> "absent",
     result |-> [kind |-> "absent", message_id |-> "absent"]]
InvalidBody(exc) == [NoBody EXCEPT !.json = "invalid", !.exc = exc]
NonObjectBody == [NoBody EXCEPT !.json = "nonobject"]
ObjectBody(ok, description, res) ==
    [NoBody EXCEPT !.json = "object", !.ok = ok, !.description = description,
                   !.result = res]

ResultAbsent == [kind |-> "absent", message_id |-> "absent"]
ResultNonObject == [kind |-> "nonobject", message_id |-> "absent"]
ResultObject(message_id) == [kind |-> "object", message_id |-> message_id]

\* What requests.post did: nothing yet, raised an exception of class exc, or
\* returned a response.  The classes are those the except clauses tell apart:
\* "Timeout" (requests.exceptions.Timeout), "RequestException" (any other
\* subclass of it), "Exception" (anything else).
NoOutcome == [kind |-> "none", exc |-> "", status |-> 0, body |-> NoBody]
Raises(exc) == [NoOutcome EXCEPT !.kind = "raise", !.exc = exc]
Response(status, body) ==
    [NoOutcome EXCEPT !.kind = "response", !.status = status, !.body = body]

\* The dict send_message returns; propagated names the exception that left
\* send_message instead, "" when none did.
NoResult ==
    [returned |-> FALSE, propagated |-> "", success |-> FALSE, error |-> "",
     message_id |-> "absent", response |-> NoBody]
Success(message_id, body) ==
    [NoResult EXCEPT !.returned = TRUE, !.success = TRUE,
                     !.message_id = message_id, !.response = body]
Failure(error) ==
    [NoResult EXCEPT !.returned = TRUE, !.error = error]
Propagated(exc) ==
    [NoResult EXCEPT !.propagated = exc]
Returns(value) == [exc |-> "", value |-> value]
Throws(exc) == [exc |-> exc, value |-> NoResult]

----------------------------------------------------------------------------
(* TelePing.send_message: the pure parts                                   *)

Validate_NoStrip(text) ==
    IF ~text.truthy THEN "empty"
    ELSE IF text.type # "str" THEN "raise"
    ELSE "ok"

\* if not text or not text.strip(): "empty" when the test is true, "raise"
\* when text is truthy and has no strip() (AttributeError), "ok" otherwise
Validate(text) ==
    IF ~text.truthy THEN "empty"
    ELSE IF text.type # "str" THEN "raise"
    ELSE IF Strip(text.chars) = <<>> THEN "empty"
    ELSE "ok"

\* data['parse_mode'] is set only for 'HTML' and 'Markdown'
FormParseMode(parse_mode) ==
    IF parse_mode # "None" /\ parse_mode \in {"HTML", "Markdown"}
    THEN parse_mode ELSE "absent"

FormData(chat_id, sanitized_text, parse_mode) ==
    [chat_id |-> chat_id, text |-> sanitized_text,
     parse_mode |-> FormParseMode(parse_mode)]

\* result.get('result', {}).get('message_id')
MessageId(body) ==
    IF body.result.kind = "absent" THEN Returns("None")
    ELSE IF body.result.kind = "nonobject" THEN Throws("Exception")
    ELSE IF body.result.message_id = "absent" THEN Returns("None")
    ELSE Returns(body.result.message_id)

\* result.get('description', 'Unknown API error')
Description(body) ==
    IF body.description = "absent" THEN "Unknown API error"
    ELSE body.description

Classify_NoOkCheck(response) ==
    IF response.status = 200
    THEN LET body == response.body
         IN IF body.json = "invalid" THEN Throws(body.exc)
            ELSE IF body.json = "nonobject" THEN Throws("Exception")
            ELSE LET mid == MessageId(body)
                 IN IF mid.exc # "" THEN mid
                    ELSE Returns(Success(mid.value, body))
    ELSE Returns(Failure("HTTP error: " \o ToString(response.status)))

\* the "Check response" block of send_message
Classify(response) ==
    IF response.status = 200
    THEN LET body == response.body
         IN IF body.json = "invalid" THEN Throws(body.exc)
            ELSE IF body.json = "nonobject" THEN Throws("Exception")
            ELSE IF Truthy(body.ok)
            THEN LET mid == MessageId(body)
                 IN IF mid.exc # "" THEN mid
                    ELSE Returns(Success(mid.value, body))
            ELSE Returns(Failure("API error: " \o Description(body)))
    ELSE Returns(Failure("HTTP error: " \o ToString(response.status)))

ExceptHandler_NoCatchAll(exc) ==
    IF exc = "Timeout" THEN Failure("Request timeout")
    ELSE IF exc \in {"Timeout", "RequestException"} THEN Failure("Network error")
    ELSE Propagated(exc)

\* the except clauses of send_message, tried in order
ExceptHandler(exc) ==
    IF exc = "Timeout" THEN Failure("Request timeout")
    ELSE IF exc \in {"Timeout", "RequestException"} THEN Failure("Network error")
    ELSE IF exc \in {"Timeout", "RequestException", "Exception"}
    THEN Failure("Unexpected error occurred")
    ELSE Propagated(exc)

\* what send_message returns once requests.post has done o
SendOutcome(o) ==
    IF o.kind = "raise" THEN ExceptHandler(o.exc)
    ELSE LET c == Classify(o)
         IN IF c.exc # "" THEN ExceptHandler(c.exc) ELSE c.value

\* The locals of a call.  stamp, posts, slept and lrt_entry observe it: the
\* tick at which it wrote last_request_time (-1: not yet), the POSTs it has
\* issued, whether it slept, and last_request_time when it was entered.
NoCall ==
    [n |-> 0, text |-> PyNone, parse_mode |-> "None", sanitized_text |-> <<>>,
     current_time |-> 0, sleep_until |-> 0, seen |-> 0,
     stamp |-> -1, posts |-> 0, slept |-> FALSE, lrt_entry |-> 0]

SendIdle ==
    /\ clock = 0
    /\ pc = [t \in Threads |-> "idle"]
    /\ call = [t \in Threads |-> NoCall]
    /\ outcome = [t \in Threads |-> NoOutcome]
    /\ result = [t \in Threads |-> NoResult]
    /\ stamps = <<>>
    /\ dispatches = <<>>
    /\ ncalls = 0

----------------------------------------------------------------------------
(* Configuration: os.getenv, TelePing.__init__, _validate_config,          *)
(* get_teleping.  An environment value is unset (os.getenv gives None) or  *)
(* a string, here a sequence of character classes: "1" a digit, ":" the    *)
(* colon, "a" a letter, "_" or "-", NL "\n".                               *)

NL == "NL"
Unset == [set |-> FALSE, value |-> <<>>]
EnvStr(s) == [set |-> TRUE, value |-> s]

IsDigit(c) == c = "1"
IsTokenChar(c) == c \in {"1", "a"}

\* re.match(r'^\d+:[A-Za-z0-9_-]+$', s); "$" matches at the end of the string
\* and just before a newline that ends it
MatchToken(s) ==
    \E i \in 1..Len(s), e \in {Len(s), Len(s) - 1} :
        /\ \A k \in 1..i : IsDigit(s[k])
        /\ i + 1 <= Len(s) /\ s[i + 1] = ":"
        /\ e >= i + 2
        /\ \A k \in (i + 2)..e : IsTokenChar(s[k])
        /\ e = Len(s) - 1 => s[Len(s)] = NL

\* s.isdigit()
IsDigitStr(s) == s # <<>> /\ \A k \in 1..Len(s) : IsDigit(s[k])

\* not v, for v = os.getenv(...)
Falsy(v) == ~v.set \/ v.value = <<>>

ConfigOk == ""

ValidateConfig_NoChatCheck(bot_token, chat_id) ==
    IF Falsy(bot_token)
    THEN "TELEGRAM_BOT_TOKEN not found in environment variables"
    ELSE IF Falsy(chat_id)
    THEN "CHAT_ID not found in environment variables"
    ELSE IF ~MatchToken(bot_token.value)
    THEN "Invalid bot token format"
    ELSE ConfigOk

\* TelePing._validate_config: the message of the ValueError raised, ConfigOk
\* when none is
ValidateConfig(bot_token, chat_id) ==
    IF Falsy(bot_token)
    THEN "TELEGRAM_BOT_TOKEN not found in environment variables"
    ELSE IF Falsy(chat_id)
    THEN "CHAT_ID not found in environment variables"
    ELSE IF ~MatchToken(bot_token.value)
    THEN "Invalid bot token format"
    ELSE IF ~IsDigitStr(chat_id.value)
    THEN "Invalid chat ID format"
    ELSE ConfigOk

rate_limit_delay == 1

\* None, and the object TelePing.__init__ builds
NoClient == [is_none |-> TRUE, bot_token |-> Unset, chat_id |-> Unset,
             last_request_time |-> 0, rate_limit_delay |-> 0]
NewClient(bot_token, chat_id) ==
    [is_none |-> FALSE, bot_token |-> bot_token, chat_id |-> chat_id,
     last_request_time |-> 0, rate_limit_delay |-> rate_limit_delay]

TokenChars == {"1", ":", "a", NL}
TokenValues ==
    {Unset} \cup {EnvStr(s) : s \in UNION {[1..n -> TokenChars] : n \in 0..MaxTokenLen}}
ChatValues ==
    {Unset} \cup {EnvStr(s) : s \in {<<>>, <<"1">>, <<"1", "1">>, <<"1", "a">>,
                                     <<"a">>, <<"1", NL>>, <<"1", "1", "1">>}}

CfgIdle ==
    /\ teleping_instance = NoClient
    /\ client = NoClient
    /\ ctor_call = ""
    /\ ctor_error = ""
    /\ ctor_failed = FALSE

InitConfig ==
    /\ CfgIdle
    /\ SendIdle
    /\ san_text = PyNone
    /\ san_out = <<>>
    /\ san_done = FALSE

\* TelePing(): __init__ reads the environment and validates; the object is
\* returned only when _validate_config raises nothing
Construct(bot_token, chat_id) ==
    LET err == ValidateConfig(bot_token, chat_id)
    IN /\ ctor_error' = err
       /\ ctor_failed' = (ctor_failed \/ err # ConfigOk)
       /\ client' = IF err = ConfigOk THEN NewClient(bot_token, chat_id)
                    ELSE NoClient

ConstructDirect ==
    \E bot_token \in TokenValues, chat_id \in ChatValues :
        /\ Construct(bot_token, chat_id)
        /\ ctor_call' = "TelePing"
        /\ UNCHANGED <<teleping_instance, sanVars, sendVars>>

\* get_teleping(): the global is assigned only after TelePing() has returned
GetTeleping ==
    /\ ctor_call' = "get_teleping"
    /\ \/ /\ teleping_instance.is_none
          /\ \E bot_token \in TokenValues, chat_id \in ChatValues :
                /\ Construct(bot_token, chat_id)
                /\ teleping_instance' = client'
          /\ UNCHANGED <<sanVars, sendVars>>
       \/ /\ ~teleping_instance.is_none
          /\ client' = teleping_instance
          /\ ctor_error' = ConfigOk
          /\ UNCHANGED <<teleping_instance, ctor_failed, sanVars, sendVars>>

NextConfig == ConstructDirect \/ GetTeleping

SpecConfig == InitConfig /\ [][NextConfig]_vars

----------------------------------------------------------------------------
(* C7 *)

ValidCredentials(c) ==
    /\ c.bot_token.set /\ MatchToken(c.bot_token.value)
    /\ c.chat_id.set /\ IsDigitStr(c.chat_id.value)

ConfigErrors ==
    {"TELEGRAM_BOT_TOKEN not found in environment variables",
     "CHAT_ID not found in environment variables",
     "Invalid bot token format",
     "Invalid chat ID format"}

\* C7: a client exists (returned by the constructor, or held in the global and
\* returned by get_teleping) only with a present, pattern-matching bot token
\* and a present, all-digit chat id; a failed construction raised one of the
\* four configuration errors and returned no client, and the global is set
\* only to a valid client, so it stays unset after a failure; construction
\* issues no POST.
C7_ValidClient ==
    /\ dispatches = <<>>
    /\ ~client.is_none => ValidCredentials(client)
    /\ ~teleping_instance.is_none => ValidCredentials(teleping_instance)
    /\ ctor_error # ConfigOk => (ctor_error \in ConfigErrors /\ client.is_none)
    /\ (ctor_call # "" /\ ctor_error = ConfigOk) => ~client.is_none
    /\ ctor_call = "get_teleping"
          => /\ client = teleping_instance
             /\ ctor_error # ConfigOk => teleping_instance.is_none

\* a construction has failed, and a later get_teleping validated again and
\* set the global
C7_Witness ==
    /\ ctor_failed
    /\ ~teleping_instance.is_none
    /\ ctor_call = "get_teleping"
    /\ ctor_error = ConfigOk

----------------------------------------------------------------------------
(* Specification SpecSanitize: _sanitize_message on every bounded text     *)

RunLengths == {1, TruncateAt - 1, TruncateAt, MaxMessageLen}
Runs == {"a", SP, CR, LF} \X RunLengths
Texts == UNION {[1..n -> Runs] : n \in 0..MaxRuns}
SanTexts == {PyStr(s) : s \in Texts} \cup {PyNone, PyZero, PyInt}

InitSanitize ==
    /\ san_text \in SanTexts
    /\ san_out = <<>>
    /\ san_done = FALSE
    /\ CfgIdle
    /\ SendIdle

Sanitize ==
    /\ ~san_done
    /\ san_out' = sanitize_message(san_text)
    /\ san_done' = TRUE
    /\ UNCHANGED <<san_text, cfgVars, sendVars>>

NextSanitize == Sanitize

SpecSanitize == InitSanitize /\ [][NextSanitize]_vars

----------------------------------------------------------------------------
(* C6 *)

\* C6 as stated: for every text longer than 4000 characters the output of
\* _sanitize_message has length exactly 4000 and ends with "...".
C6_Original ==
    (san_done /\ StrLen(san_text.chars) > MaxMessageLen)
        => /\ StrLen(san_out) = MaxMessageLen
           /\ EndsWith(san_out, Ellipsis)

\* C6, amended: for every text longer than 4000 characters the output of
\* _sanitize_message has length at most 4000 and ends with "..."; the length
\* is exactly 4000 when the first 3997 characters hold no "\r\n" pair and do
\* not begin with whitespace.
C6_Sanitize ==
    (san_done /\ StrLen(san_text.chars) > MaxMessageLen)
        => LET head == Prefix(san_text.chars, TruncateAt)
           IN /\ StrLen(san_out) <= MaxMessageLen
              /\ EndsWith(san_out, Ellipsis)
              /\ (~HasCRLF(head) /\ head[1][1] \notin Whitespace)
                    => StrLen(san_out) = MaxMessageLen

\* a text longer than 4000 characters, with a "\r\n" pair before the cut, has
\* been sanitised to fewer than 4000 characters
C6_Witness ==
    /\ san_done
    /\ StrLen(san_text.chars) > MaxMessageLen
    /\ HasCRLF(Prefix(san_text.chars, TruncateAt))
    /\ StrLen(san_out) < MaxMessageLen
    /\ EndsWith(san_out, Ellipsis)

----------------------------------------------------------------------------
(* TelePing.send_message and TelePing._rate_limit, step by step            *)

\* rate_limit_delay, in ticks
Delay == teleping_instance.rate_limit_delay * TicksPerSecond

\* send_message up to the call of _rate_limit: validation and sanitisation
Call(t, txt, parse_mode) ==
    /\ pc[t] = "idle"
    /\ ~teleping_instance.is_none
    /\ ncalls < MaxCalls
    /\ ncalls' = ncalls + 1
    /\ outcome' = [outcome EXCEPT ![t] = NoOutcome]
    /\ LET v == Validate(txt)
           c == [NoCall EXCEPT !.n = ncalls + 1, !.text = txt,
                               !.parse_mode = parse_mode,
                               !.lrt_entry = teleping_instance.last_request_time]
       IN IF v = "ok"
          THEN /\ call' = [call EXCEPT ![t] =
                              [c EXCEPT !.sanitized_text = sanitize_message(txt)]]
               /\ pc' = [pc EXCEPT ![t] = "rl_time"]
               /\ result' = [result EXCEPT ![t] = NoResult]
          ELSE /\ call' = [call EXCEPT ![t] = c]
               /\ pc' = pc
               /\ result' = [result EXCEPT ![t] =
                                IF v = "empty"
                                THEN Failure("Message text cannot be empty")
                                ELSE ExceptHandler("Exception")]
    /\ UNCHANGED <<clock, stamps, dispatches, teleping_instance, cfgRest, sanVars>>

\* current_time = time.time()
RateLimitTime(t) ==
    /\ pc[t] = "rl_time"
    /\ call' = [call EXCEPT ![t].current_time = clock]
    /\ pc' = [pc EXCEPT ![t] = "rl_read"]
    /\ UNCHANGED <<clock, outcome, result, stamps, dispatches, ncalls,
                   teleping_instance, cfgRest, sanVars>>

SleepTime_None(time_since_last) == 0

\* sleep_time = self.rate_limit_delay - time_since_last, 0 when no sleep is due
SleepTime(time_since_last) ==
    IF time_since_last < Delay THEN Delay - time_since_last ELSE 0

\* time_since_last = current_time - self.last_request_time, and the call of
\* time.sleep when it is under the delay
RateLimitCheck(t) ==
    /\ pc[t] = "rl_read"
    /\ LET time_since_last ==
               call[t].current_time - teleping_instance.last_request_time
           sleep_time == SleepTime(time_since_last)
       IN IF sleep_time > 0
          THEN /\ call' = [call EXCEPT ![t].sleep_until = clock + sleep_time,
                                       ![t].seen = Len(stamps),
                                       ![t].slept = TRUE]
               /\ pc' = [pc EXCEPT ![t] = "rl_sleep"]
          ELSE /\ call' = [call EXCEPT ![t].seen = Len(stamps)]
               /\ pc' = [pc EXCEPT ![t] = "rl_write"]
    /\ UNCHANGED <<clock, outcome, result, stamps, dispatches, ncalls,
                   teleping_instance, cfgRest, sanVars>>

\* time.sleep returns, no earlier than asked
RateLimitWake(t) ==
    /\ pc[t] = "rl_sleep"
    /\ clock >= call[t].sleep_until
    /\ pc' = [pc EXCEPT ![t] = "rl_write"]
    /\ UNCHANGED <<clock, call, outcome, result, stamps, dispatches, ncalls,
                   teleping_instance, cfgRest, sanVars>>

StampValue_Stale(t) == call[t].current_time

\* time.time() in self.last_request_time = time.time()
StampValue(t) == clock

RateLimitStamp(t) ==
    /\ pc[t] = "rl_write"
    /\ teleping_instance' =
           [teleping_instance EXCEPT !.last_request_time = StampValue(t)]
    /\ stamps' = Append(stamps, [thread |-> t, time |-> clock,
                                 seen |-> call[t].seen])
    /\ call' = [call EXCEPT ![t].stamp = clock]
    /\ pc' = [pc EXCEPT ![t] = "post"]
    /\ UNCHANGED <<clock, outcome, result, dispatches, ncalls, cfgRest, sanVars>>

\* the request is built and requests.post is called
Post(t) ==
    /\ pc[t] = "post"
    /\ dispatches' =
           Append(dispatches,
                  [thread |-> t, time |-> clock, n |-> call[t].n,
                   data |-> FormData(teleping_instance.chat_id,
                                     call[t].sanitized_text,
                                     call[t].parse_mode)])
    /\ call' = [call EXCEPT ![t].posts = call[t].posts + 1]
    /\ pc' = [pc EXCEPT ![t] = "await"]
    /\ UNCHANGED <<clock, outcome, result, stamps, ncalls,
                   teleping_instance, cfgRest, sanVars>>

Respond_RetryTimeout(t, o) ==
    /\ pc[t] = "await"
    /\ outcome' = [outcome EXCEPT ![t] = o]
    /\ IF o.kind = "raise" /\ o.exc = "Timeout"
       THEN /\ pc' = [pc EXCEPT ![t] = "post"]
            /\ UNCHANGED result
       ELSE /\ result' = [result EXCEPT ![t] = SendOutcome(o)]
            /\ pc' = [pc EXCEPT ![t] = "idle"]
    /\ UNCHANGED <<clock, call, stamps, dispatches, ncalls,
                   teleping_instance, cfgRest, sanVars>>

\* requests.post raises or returns, and send_message returns
Respond(t, o) ==
    /\ pc[t] = "await"
    /\ outcome' = [outcome EXCEPT ![t] = o]
    /\ result' = [result EXCEPT ![t] = SendOutcome(o)]
    /\ pc' = [pc EXCEPT ![t] = "idle"]
    /\ UNCHANGED <<clock, call, stamps, dispatches, ncalls,
                   teleping_instance, cfgRest, sanVars>>

\* time passes
Tick ==
    /\ clock < MaxTime
    /\ clock' = clock + 1
    /\ UNCHANGED <<pc, call, outcome, result, stamps, dispatches, ncalls,
                   cfgVars, sanVars>>

----------------------------------------------------------------------------
(* Inputs                                                                  *)

SendTexts ==
    {PyNone, PyZero, PyInt,
     PyStr(<<>>),
     PyStr(<< <<SP, 2>> >>),
     PyStr(<< <<CR, 1>>, <<LF, 1>> >>),
     PyStr(<< <<"a", 1>> >>),
     PyStr(<< <<SP, 1>>, <<"a", MaxMessageLen>>, <<CR, 1>> >>)}
ParseModes == {"None", "HTML", "MarkdownV2"}

ObjectBodies ==
    {ObjectBody(ok, "absent", res) :
        ok \in {"true", "1"},
        res \in {ResultAbsent, ResultNonObject, ResultObject("absent"),
                 ResultObject("42")}}
    \cup {ObjectBody(ok, d, ResultAbsent) :
        ok \in {"false", "absent"}, d \in {"absent", "chat not found"}}
Bodies ==
    ObjectBodies
    \cup {NonObjectBody, InvalidBody("RequestException"), InvalidBody("Exception")}
Outcomes ==
    {Raises(exc) : exc \in {"Timeout", "RequestException", "Exception"}}
    \cup {Response(200, b) : b \in Bodies}
    \cup {Response(403, b) : b \in {InvalidBody("Exception"),
                                    ObjectBody("true", "absent", ResultObject("42"))}}

ConcTexts == {PyStr(<< <<"a", 1>> >>)}
ConcModes == {"None"}
ConcOutcomes ==
    {Raises("Timeout"),
     Response(200, ObjectBody("true", "absent", ResultObject("42")))}

DefaultClient ==
    NewClient(EnvStr(<<"1", ":", "a">>), EnvStr(<<"1">>))

\* get_teleping() has built the global instance
InitSend ==
    /\ SendIdle
    /\ teleping_instance = DefaultClient
    /\ client = DefaultClient
    /\ ctor_call = "get_teleping"
    /\ ctor_error = ConfigOk
    /\ ctor_failed = FALSE
    /\ san_text = PyNone
    /\ san_out = <<>>
    /\ san_done = FALSE

----------------------------------------------------------------------------
(* Specification Spec: one caller, calls one after another                 *)

Next ==
    \/ \E txt \in SendTexts, parse_mode \in ParseModes : Call(1, txt, parse_mode)
    \/ RateLimitTime(1)
    \/ RateLimitCheck(1)
    \/ RateLimitWake(1)
    \/ RateLimitStamp(1)
    \/ Post(1)
    \/ \E o \in Outcomes : Respond(1, o)
    \/ Tick

Spec == InitSend /\ [][Next]_vars

(* Specification SpecConc: two threads share the instance                  *)

NextConc ==
    \/ \E t \in Threads :
          \/ \E txt \in ConcTexts, parse_mode \in ConcModes : Call(t, txt, parse_mode)
          \/ RateLimitTime(t)
          \/ RateLimitCheck(t)
          \/ RateLimitWake(t)
          \/ RateLimitStamp(t)
          \/ Post(t)
          \/ \E o \in ConcOutcomes : Respond(t, o)
    \/ Tick

SpecConc == InitSend /\ [][NextConc]_vars

----------------------------------------------------------------------------
(* Claims about send_message                                               *)

\* text is a string that is empty or holds only whitespace
IsBlank(text) ==
    /\ text.type = "str"
    /\ \A i \in 1..Len(text.chars) : text.chars[i][1] \in Whitespace

\* thread t has made a call and it is over
Over(t) == pc[t] = "idle" /\ call[t].n > 0

\* the POSTs thread t's current call has issued
PostsOf(t) == {i \in 1..Len(dispatches) : dispatches[i].n = call[t].n}

\* C1 as stated: the dispatch times of any two consecutive calls that reach
\* the HTTP POST are at least rate_limit_delay apart.
C1_DispatchSpacing ==
    \A i \in 1..(Len(dispatches) - 1) :
        dispatches[i + 1].time - dispatches[i].time >= Delay

\* C2: a call with empty or whitespace-only text returns the failure
\* 'Message text cannot be empty', has issued no POST, has not slept and has
\* not written last_request_time, which is what it was when the call was made.
C2_EmptyRejected ==
    \A t \in Threads :
        (call[t].n > 0 /\ IsBlank(call[t].text))
            => /\ pc[t] = "idle"
               /\ result[t] = Failure("Message text cannot be empty")
               /\ call[t].posts = 0 /\ PostsOf(t) = {}
               /\ ~call[t].slept
               /\ call[t].stamp = -1
               /\ teleping_instance.last_request_time = call[t].lrt_entry

\* a whitespace-only text has been rejected after an earlier call was sent
C2_Witness ==
    /\ Len(dispatches) = 1
    /\ teleping_instance.last_request_time > 0
    /\ call[1].n = 2
    /\ call[1].text = PyStr(<< <<CR, 1>>, <<LF, 1>> >>)
    /\ result[1].error = "Message text cannot be empty"

\* C3: no exception leaves send_message; a call that is over has returned a
\* result with a success flag, and with an error string when that is False.
C3_AlwaysReturns ==
    \A t \in Threads :
        /\ result[t].propagated = ""
        /\ Over(t) => /\ result[t].returned
                      /\ result[t].success \in BOOLEAN
                      /\ ~result[t].success => result[t].error # ""

\* a call whose response body is JSON but no object has returned the
\* catch-all failure
C3_Witness ==
    /\ Over(1)
    /\ outcome[1] = Response(200, NonObjectBody)
    /\ result[1] = Failure("Unexpected error occurred")

\* C4 as stated: success is True if and only if the text passed validation,
\* the POST returned status 200 and the body's ok is true.
C4_Original ==
    \A t \in Threads :
        Over(t) =>
            (result[t].success <=>
                /\ Validate(call[t].text) = "ok"
                /\ outcome[t].kind = "response"
                /\ outcome[t].status = 200
                /\ outcome[t].body.ok = "true")

\* C4, amended: success is True if and only if the text passed validation, the
\* POST returned status 200 with a JSON object whose ok is truthy and whose
\* result is absent or an object; then message_id is body.result.message_id
\* (None when there is none) and response is the whole body.
C4_SuccessIff ==
    \A t \in Threads :
        Over(t) =>
            LET o == outcome[t]
                good == /\ ~IsBlank(call[t].text)
                        /\ call[t].text.type = "str"
                        /\ o.kind = "response"
                        /\ o.status = 200
                        /\ o.body.json = "object"
                        /\ Truthy(o.body.ok)
                        /\ o.body.result.kind \in {"absent", "object"}
            IN /\ result[t].success <=> good
               /\ result[t].success =>
                     /\ result[t].response = o.body
                     /\ result[t].message_id =
                            IF o.body.result.message_id = "absent" THEN "None"
                            ELSE o.body.result.message_id

\* a call has returned success with the message id of the body
C4_Witness ==
    /\ Over(1)
    /\ result[1].success
    /\ result[1].message_id = "42"
    /\ outcome[1].body.result = ResultObject("42")

\* C5 as stated: for a send that passed validation and failed, a timeout gives
\* 'Request timeout', any other transport failure 'Network error', a status
\* other than 200 'HTTP error: <status>', status 200 with ok false or absent
\* 'API error: <description>', and any other exception raised while the
\* response is handled 'Unexpected error occurred'.
C5_ErrorTaxonomy ==
    \A t \in Threads :
        (Over(t) /\ Validate(call[t].text) = "ok" /\ ~result[t].success) =>
            LET o == outcome[t]
            IN result[t].error =
                 IF o.kind = "raise"
                 THEN (IF o.exc = "Timeout" THEN "Request timeout"
                       ELSE IF o.exc = "RequestException" THEN "Network error"
                       ELSE "Unexpected error occurred")
                 ELSE IF o.status # 200
                 THEN "HTTP error: " \o ToString(o.status)
                 ELSE IF o.body.json = "object" /\ ~Truthy(o.body.ok)
                 THEN "API error: " \o
                        (IF o.body.description = "absent"
                         THEN "Unknown API error" ELSE o.body.description)
                 ELSE "Unexpected error occurred"

\* C9: last_request_time is 0 until the first write and then the tick of the
\* latest write, which is the time at which that attempt passed the throttle;
\* the writes never go back in time; a call that has reached the POST wrote it
\* before the POST, and no outcome of the POST changes it.
C9_StampIsIssuanceTime ==
    /\ teleping_instance.last_request_time =
           IF stamps = <<>> THEN 0 ELSE stamps[Len(stamps)].time
    /\ \A i \in 1..(Len(stamps) - 1) : stamps[i].time <= stamps[i + 1].time
    /\ \A t \in Threads :
          (pc[t] \in {"post", "await"} \/ call[t].posts > 0) =>
              /\ call[t].stamp >= 0
              /\ teleping_instance.last_request_time = call[t].stamp
              /\ \A i \in PostsOf(t) : dispatches[i].time >= call[t].stamp

\* a call that slept has timed out, some time after its POST, and
\* last_request_time is still the time at which it passed the throttle
C9_Witness ==
    /\ Over(1)
    /\ call[1].slept
    /\ result[1] = Failure("Request timeout")
    /\ teleping_instance.last_request_time = call[1].stamp
    /\ call[1].stamp > call[1].current_time
    /\ clock > call[1].stamp

\* C10: a call issues at most one POST; none before sanitisation and the
\* throttle are over; exactly one, carrying the sanitised text, once a call
\* with a non-blank string is past the POST, whatever the outcome.
C10_OnePost ==
    \A t \in Threads :
        /\ call[t].posts = Cardinality(PostsOf(t))
        /\ call[t].posts <= 1
        /\ pc[t] \in {"rl_time", "rl_read", "rl_sleep", "rl_write", "post"}
              => call[t].posts = 0
        /\ (pc[t] = "await"
              \/ (Over(t) /\ call[t].text.type = "str" /\ ~IsBlank(call[t].text)))
              => /\ call[t].posts = 1
                 /\ call[t].stamp >= 0
                 /\ \A i \in PostsOf(t) :
                       dispatches[i].data.text = sanitize_message(call[t].text)
        /\ (Over(t) /\ (call[t].text.type # "str" \/ IsBlank(call[t].text)))
              => call[t].posts = 0

\* two calls have each issued one POST, the first of which timed out
C10_Witness ==
    /\ Over(1)
    /\ call[1].n = 2
    /\ Len(dispatches) = 2
    /\ result[1] = Failure("Request timeout")
    /\ call[1].posts = 1

----------------------------------------------------------------------------
(* C8 *)

\* C8: with two threads on one instance, two writes of last_request_time less
\* than rate_limit_delay apart happen only by a race: the later writer read
\* last_request_time before the earlier write was made, and is another thread.
C8_OnlyByRace ==
    \A i \in 1..(Len(stamps) - 1) :
        stamps[i + 1].time - stamps[i].time < Delay
            => /\ stamps[i + 1].seen < i
               /\ stamps[i + 1].thread # stamps[i].thread

\* the race has happened: two threads wrote last_request_time less than
\* rate_limit_delay apart and both POSTs went out less than that apart
C8_Witness ==
    \E i \in 1..(Len(stamps) - 1), j \in 1..(Len(dispatches) - 1) :
        /\ stamps[i + 1].time - stamps[i].time < Delay
        /\ stamps[i + 1].seen < i
        /\ dispatches[j].thread = stamps[i].thread
        /\ dispatches[j + 1].thread = stamps[i + 1].thread
        /\ dispatches[j].thread # dispatches[j + 1].thread
        /\ dispatches[j].time >= stamps[i].time
        /\ dispatches[j + 1].time - dispatches[j].time < Delay

====
